---- MODULE Spec2Model ----
(***************************************************************************)
(* Model of the OCR backend: the text cleaner (app/ocr/cleaner.py), the    *)
(* local recognition path (app/ocr/service.py), the cloud adapter          *)
(* (app/ocr/cloud_ocr.py) and the two OCR routes (app/routes/ocr_routes.py)*)
(*                                                                         *)
(* A text is a sequence of characters, each a string; the ligatures and    *)
(* the long dashes are written "<fi>", "<fl>", "<emdash>", "<endash>".     *)
(***************************************************************************)
EXTENDS Integers, Sequences, FiniteSets, TLC

\* ------------------------------------------------------------------------
\* Bounds of the model
\* ------------------------------------------------------------------------
\* longest text enumerated for the pure text functions
MaxLen == 5
\* most lines in one engine's output
MaxEngineLines == 2

\* lines of a text handed to _post_clean_text alone
MaxPostLines == 2

\* ------------------------------------------------------------------------
\* Character classes (Python str / re semantics on the characters used)
\* ------------------------------------------------------------------------
AsciiUpper ==
    {"A","B","C","D","E","F","G","H","I","J","K","L","M",
     "N","O","P","Q","R","S","T","U","V","W","X","Y","Z"}

AsciiLower ==
    {"a","b","c","d","e","f","g","h","i","j","k","l","m",
     "n","o","p","q","r","s","t","u","v","w","x","y","z"}

Digits == {"0","1","2","3","4","5","6","7","8","9"}

\* the letter class [A-Za-zÁÉÍÓÚÑáéíóú] of cleaner.py (no lower-case ñ)
CleanerLetters ==
    AsciiUpper \cup AsciiLower \cup {"Á","É","Í","Ó","Ú","Ñ","á","é","í","ó","ú"}

\* the letter class [A-Za-zÁÉÍÓÚáéíóúÑñ] of service.py
ServiceLetters == CleanerLetters \cup {"ñ"}

\* str.isalnum (the ligatures are letters too)
AlnumChars == ServiceLetters \cup Digits \cup {"ü", "<fi>", "<fl>"}

\* line boundaries of str.splitlines
LineBreaks == {"\n", "\r", "\f"}

\* str.isspace and the regex class \s
SpaceChars == {" ", "\t"} \cup LineBreaks

\* the punctuation counted as useful by strip_garbage_prefix
GoodPunct == {".", ",", ";", ":", "!", "?", "¡", "¿", "'", "\"", "(", ")", "-", "/", "%"}

\* complement of the class stripped from the start of a line
PrefixKeep == CleanerLetters \cup Digits \cup {"¿", "¡", "("}

\* the regex class \w
WordChars == AlnumChars \cup {"_"}

\* characters kept by the substitution of clean_ocr_text
CleanKeep ==
    WordChars \cup SpaceChars
      \cup {".", ",", ";", ":", "!", "?", "¡", "¿", "'", "\"", "(", ")", "/", "%", "-"}

isalnum(ch) == ch \in AlnumChars

isspace(ch) == ch \in SpaceChars

\* ------------------------------------------------------------------------
\* String helpers
\* ------------------------------------------------------------------------
RECURSIVE lstrip(_)
lstrip(s) ==
    IF s # <<>> /\ isspace(Head(s)) THEN lstrip(Tail(s)) ELSE s

RECURSIVE rstrip(_)
rstrip(s) ==
    IF s # <<>> /\ isspace(s[Len(s)]) THEN rstrip(SubSeq(s, 1, Len(s) - 1)) ELSE s

strip(s) == rstrip(lstrip(s))

\* the pieces of s between its "\n" characters, from position i on
RECURSIVE SplitNewlineFrom(_, _, _)
SplitNewlineFrom(s, i, cur) ==
    IF i > Len(s) THEN (IF cur = <<>> THEN <<>> ELSE <<cur>>)
    ELSE IF s[i] = "\n" THEN <<cur>> \o SplitNewlineFrom(s, i + 1, <<>>)
    ELSE SplitNewlineFrom(s, i + 1, Append(cur, s[i]))

\* splitlines breaking at "\n" only
splitlines_NewlineOnly(s) == SplitNewlineFrom(s, 1, <<>>)

RECURSIVE SplitFrom(_, _, _)
SplitFrom(s, i, cur) ==
    IF i > Len(s) THEN (IF cur = <<>> THEN <<>> ELSE <<cur>>)
    ELSE IF s[i] = "\r" /\ i < Len(s) /\ s[i + 1] = "\n"
         THEN <<cur>> \o SplitFrom(s, i + 2, <<>>)
    ELSE IF s[i] \in LineBreaks THEN <<cur>> \o SplitFrom(s, i + 1, <<>>)
    ELSE SplitFrom(s, i + 1, Append(cur, s[i]))

splitlines(s) == SplitFrom(s, 1, <<>>)

RECURSIVE join(_, _)
join(sep, lines) ==
    IF lines = <<>> THEN <<>>
    ELSE IF Len(lines) = 1 THEN lines[1]
    ELSE lines[1] \o sep \o join(sep, Tail(lines))

Count(s, class) == Cardinality({i \in 1..Len(s) : s[i] \in class})

HasChar(s, class) == \E i \in 1..Len(s) : s[i] \in class

\* ------------------------------------------------------------------------
\* cleaner.py
\* ------------------------------------------------------------------------
\* unicodedata.normalize("NFKC", .) on one character
NFKC(ch) ==
    CASE ch = "<fi>" -> <<"f", "i">>
      [] ch = "<fl>" -> <<"f", "l">>
      [] OTHER -> <<ch>>

\* ReplaceTypographic without the two replacements of dashes
ReplaceTypographic_LigaturesOnly(ch) ==
    CASE ch = "<fi>" -> <<"f", "i">>
      [] ch = "<fl>" -> <<"f", "l">>
      [] OTHER -> <<ch>>

\* the four str.replace calls on one character
ReplaceTypographic(ch) ==
    CASE ch = "<fi>" -> <<"f", "i">>
      [] ch = "<fl>" -> <<"f", "l">>
      [] ch = "<emdash>" -> <<"-">>
      [] ch = "<endash>" -> <<"-">>
      [] OTHER -> <<ch>>

\* unicodedata.normalize("NFKC", text)
RECURSIVE NFKCText(_)
NFKCText(s) ==
    IF s = <<>> THEN <<>> ELSE NFKC(Head(s)) \o NFKCText(Tail(s))

RECURSIVE ReplaceTypographicText(_)
ReplaceTypographicText(s) ==
    IF s = <<>> THEN <<>>
    ELSE ReplaceTypographic(Head(s)) \o ReplaceTypographicText(Tail(s))

normalize_text(text) == ReplaceTypographicText(NFKCText(text))

\* good / max(1, len(ln)) < 0.4
LowGoodRatio(ln) ==
    LET good == Count(ln, AlnumChars \cup SpaceChars \cup GoodPunct)
        n == IF Len(ln) < 1 THEN 1 ELSE Len(ln)
    IN  good * 10 < 4 * n

\* re.sub(r"^[^A-Za-zÁÉÍÓÚÑáéíóú0-9¿¡(]+", "", ln)
RECURSIVE StripPrefix(_)
StripPrefix(ln) ==
    IF ln # <<>> /\ Head(ln) \notin PrefixKeep THEN StripPrefix(Tail(ln)) ELSE ln

\* CleanLine without the test for a readable letter
CleanLine_NoLetterTest(ln) ==
    IF ln = <<>> THEN <<>>
    ELSE IF LowGoodRatio(ln) THEN <<>>
    ELSE IF StripPrefix(ln) = <<>> THEN <<>>
    ELSE <<StripPrefix(ln)>>

\* the body of the loop of strip_garbage_prefix: the lines a line contributes
CleanLine(ln) ==
    IF ln = <<>> THEN <<>>
    ELSE IF LowGoodRatio(ln) THEN <<>>
    ELSE IF ~HasChar(StripPrefix(ln), CleanerLetters) THEN <<>>
    ELSE <<StripPrefix(ln)>>

RECURSIVE CleanLines(_)
CleanLines(lines) ==
    IF lines = <<>> THEN <<>>
    ELSE CleanLine(strip(Head(lines))) \o CleanLines(Tail(lines))

strip_garbage_prefix(text) ==
    strip(join(<<"\n">>, CleanLines(splitlines(text))))

\* CollapseBlanks replacing each space or tab, not each run of them
CollapseBlanks_PerChar(s) ==
    [i \in 1..Len(s) |-> IF s[i] = "\t" THEN " " ELSE s[i]]

\* re.sub(r"[ \t]+", " ", text)
RECURSIVE CollapseBlanks(_)
CollapseBlanks(s) ==
    IF s = <<>> THEN <<>>
    ELSE IF Head(s) \in {" ", "\t"}
         THEN IF Len(s) > 1 /\ s[2] \in {" ", "\t"}
              THEN CollapseBlanks(Tail(s))
              ELSE <<" ">> \o CollapseBlanks(Tail(s))
    ELSE <<Head(s)>> \o CollapseBlanks(Tail(s))

\* length of the run of whitespace that starts s
RECURSIVE SpaceRun(_)
SpaceRun(s) ==
    IF s # <<>> /\ isspace(Head(s)) THEN 1 + SpaceRun(Tail(s)) ELSE 0

\* re.sub(r"\s*\n\s*", "\n", text): a whitespace run holding a newline
\* becomes one newline, any other whitespace run is kept
RECURSIVE CollapseNewlines(_)
CollapseNewlines(s) ==
    IF s = <<>> THEN <<>>
    ELSE LET k == SpaceRun(s)
         IN  IF k = 0 THEN <<Head(s)>> \o CollapseNewlines(Tail(s))
             ELSE (IF \E i \in 1..k : s[i] = "\n"
                   THEN <<"\n">>
                   ELSE SubSeq(s, 1, k))
                    \o CollapseNewlines(SubSeq(s, k + 1, Len(s)))

collapse_spaces(text) == strip(CollapseNewlines(CollapseBlanks(text)))

\* strip_garbage_prefix followed by collapse_spaces
declutter(text) == collapse_spaces(strip_garbage_prefix(text))

\* re.sub(r"[^\w\s.,;:!?¡¿'\"()/%ÁÉÍÓÚÑáéíóú-]", " ", text)
BlankUnwanted(text) ==
    [i \in 1..Len(text) |-> IF text[i] \in CleanKeep THEN text[i] ELSE " "]

clean_ocr_text(text) == declutter(BlankUnwanted(normalize_text(text)))

\* ------------------------------------------------------------------------
\* service.py: _post_clean_text
\* ------------------------------------------------------------------------
UpperSeq ==
    <<"A","B","C","D","E","F","G","H","I","J","K","L","M",
      "N","O","P","Q","R","S","T","U","V","W","X","Y","Z",
      "Á","É","Í","Ó","Ú","Ñ">>

LowerSeq ==
    <<"a","b","c","d","e","f","g","h","i","j","k","l","m",
      "n","o","p","q","r","s","t","u","v","w","x","y","z",
      "á","é","í","ó","ú","ñ">>

\* str.lower
lower(s) ==
    [i \in 1..Len(s) |->
        IF \E k \in 1..Len(UpperSeq) : UpperSeq[k] = s[i]
        THEN LowerSeq[CHOOSE k \in 1..Len(UpperSeq) : UpperSeq[k] = s[i]]
        ELSE s[i]]

\* [ln.strip() for ln in text.splitlines() if ln.strip()]
RECURSIVE StrippedNonEmpty(_)
StrippedNonEmpty(lines) ==
    IF lines = <<>> THEN <<>>
    ELSE (IF strip(Head(lines)) # <<>> THEN <<strip(Head(lines))>> ELSE <<>>)
           \o StrippedNonEmpty(Tail(lines))

\* re.fullmatch(r"[\d\s;:%'\"!¡?¿,.]+", ln)
OnlyDigitsAndMarks(ln) ==
    /\ ln # <<>>
    /\ \A i \in 1..Len(ln) :
          ln[i] \in Digits \cup SpaceChars
                      \cup {";", ":", "%", "'", "\"", "!", "¡", "?", "¿", ",", "."}

\* IsNoiseLine without the comparison of digits and letters
IsNoiseLine_NoDigitTest(ln) ==
    \/ Len(ln) <= 2
    \/ OnlyDigitsAndMarks(ln)

\* the three tests of the first loop of _post_clean_text
IsNoiseLine(ln) ==
    \/ Count(ln, Digits) > Count(ln, ServiceLetters) * 2
    \/ Len(ln) <= 2
    \/ OnlyDigitsAndMarks(ln)

RECURSIVE FilterNoise(_)
FilterNoise(lines) ==
    IF lines = <<>> THEN <<>>
    ELSE (IF IsNoiseLine(Head(lines)) THEN <<>> ELSE <<Head(lines)>>)
           \o FilterNoise(Tail(lines))

\* the second loop: drop a line equal, ignoring case, to the last kept line
RECURSIVE DedupeFrom(_, _)
DedupeFrom(kept, lines) ==
    IF lines = <<>> THEN kept
    ELSE IF kept = <<>> \/ lower(kept[Len(kept)]) # lower(Head(lines))
         THEN DedupeFrom(Append(kept, Head(lines)), Tail(lines))
    ELSE DedupeFrom(kept, Tail(lines))

clean_unique(lines) == DedupeFrom(<<>>, lines)

\* number of "\n" that start s
RECURSIVE NewlineRun(_)
NewlineRun(s) ==
    IF s # <<>> /\ Head(s) = "\n" THEN 1 + NewlineRun(Tail(s)) ELSE 0

\* re.sub(r"\n{3,}", "\n\n", text)
RECURSIVE SqueezeNewlines(_)
SqueezeNewlines(s) ==
    IF s = <<>> THEN <<>>
    ELSE LET k == NewlineRun(s)
         IN  IF k = 0 THEN <<Head(s)>> \o SqueezeNewlines(Tail(s))
             ELSE (IF k >= 3 THEN <<"\n", "\n">> ELSE SubSeq(s, 1, k))
                    \o SqueezeNewlines(SubSeq(s, k + 1, Len(s)))

post_clean_lines(text) ==
    clean_unique(FilterNoise(StrippedNonEmpty(splitlines(text))))

_post_clean_text(text) ==
    strip(SqueezeNewlines(CollapseBlanks(join(<<"\n">>, post_clean_lines(text)))))

\* ------------------------------------------------------------------------
\* Inputs of a request
\* ------------------------------------------------------------------------
\* UploadFile.content_type: absent (None) or a string
NoMime == [given |-> FALSE, value |-> <<>>]

Mime(v) == [given |-> TRUE, value |-> v]

Mimes ==
    {NoMime,
     Mime(<<>>),
     Mime(<<"i", "m", "a", "g", "e", "/", "p", "n", "g">>),
     Mime(<<"a", "p", "p", "l", "i", "c", "a", "t", "i", "o", "n", "/", "p", "d", "f">>),
     Mime(<<"i", "m", "a", "g", "e">>),
     Mime(<<"I", "m", "a", "g", "e", "/", "p", "n", "g">>)}

\* what the uploaded bytes are:
\*   good          a raster image every stage accepts
\*   unidentified  Image.open raises UnidentifiedImageError
\*   open_error    Image.open raises another exception
\*   decode_fails  Image.open succeeds, loading the pixels raises
\*   filter_fails  the image loads, an OpenCV stage raises
DataKinds == {"good", "unidentified", "open_error", "decode_fails", "filter_fails"}

\* the ceiling tested by extract_text_cloud
MaxPayloadBytes == 1500000

\* byte counts around the ceiling of the remote engine
Sizes == {1000, MaxPayloadBytes, MaxPayloadBytes + 1}

\* extract_text_from_image never reads the length of the upload: one length
\* stands for all on the local path
LocalSizes == {1000}

\* language codes handed to the cloud adapter; "xx" is not a code of the
\* remote engine
Langs == {"spa", "eng", "xx"}

UnsupportedLangs == {"xx"}

\* lines a recognition engine may report
SampleLines == {<<"H", "o", "l", "a">>, <<"h", "o", "l", "a">>, <<"F", "i", "n", ".">>, <<"1", "2", "3", "4", "5">>}

RECURSIVE LineSeqs(_)
LineSeqs(n) ==
    IF n = 0 THEN {<<>>}
    ELSE LineSeqs(n - 1)
           \cup {Append(ls, ln) : ls \in {x \in LineSeqs(n - 1) : Len(x) = n - 1},
                                  ln \in SampleLines}

\* what readtext returns: the recognised spans, in reading order
EasyResults == LineSeqs(MaxEngineLines)

\* what image_to_string returns: the lines, each ended by a newline, or
\* blank output
TessResults ==
    {join(<<"\n">>, ls) \o <<"\n">> : ls \in LineSeqs(MaxEngineLines) \ {<<>>}}
      \cup {<<>>, <<" ", "\n">>}

StartsWith(s, prefix) ==
    Len(s) >= Len(prefix) /\ SubSeq(s, 1, Len(prefix)) = prefix

\* ------------------------------------------------------------------------
\* State
\* ------------------------------------------------------------------------
VARIABLES
    apiKey,       \* whether OCR_SPACE_API_KEY is set in the process
    path,         \* "none", "local" (POST /api/ocr/), "cloud" (POST /api/ocr/cloud/),
                  \* "adapter" (extract_text_cloud called by another caller)
    pc,           \* position of the request in its handler
    mime,         \* declared content type of the upload
    data,         \* the uploaded bytes: [kind, size]
    lang,         \* language code handed to extract_text_cloud
    calls,        \* the operations performed for the request, in order
    text_easy,    \* contribution of the neural engine
    text_tess,    \* contribution of the classical engine
    easy_raised,  \* reader.readtext raised
    tess_raised,  \* image_to_string raised
    payload,      \* the bytes extract_text_cloud holds after resizing: [size, jpeg]
    sent,         \* the requests posted to the remote engine: [size, jpeg, language]
    status,       \* HTTP status of the response (0: none yet)
    detail,       \* which error the response reports ("" for none)
    text,         \* text of the response
    inp,          \* input text of the text-function specification
    out1,         \* inp after one pass
    out2,         \* inp after two passes
    tpc,          \* position in the text-function specification
    response,     \* what the remote engine answered to the POST
    errText,      \* the text interpolated into the message of the error raised
    handed,       \* the image each engine and the adapter were called with
    ping,         \* a GET /api/ocr/ping that arrives beside the request
    proc,         \* "importing" while app.main is imported, then "serving"
    readerLoads,  \* how many times easyocr.Reader has been constructed
    grid,         \* the image preprocess_image_bytes works on: [h, w, px]
    gridIn,       \* the image the stage just run was called with
    stages,       \* the stages preprocess_image_bytes has run, in order
    angle,        \* the angle deskew_image rotated by
    ppc,          \* position in preprocess_image_bytes
    clock,        \* the UTC time, in ticks of half a second
    files,        \* the export directory: the text of each file name, if any
    saved         \* the successful calls of save_text_to_disk: [name, text]

reqVars ==
    <<apiKey, path, pc, mime, data, lang, calls, text_easy, text_tess,
      easy_raised, tess_raised, payload, sent, status, detail, text>>

textVars == <<inp, out1, out2, tpc>>

moreReqVars == <<response, errText, handed>>

srvVars == <<ping, proc, readerLoads>>

pipeVars == <<grid, gridIn, stages, angle, ppc>>

\* what a step of a request handler leaves alone
saveVars == <<clock, files, saved>>

restVars == <<textVars, srvVars, pipeVars, saveVars>>

\* what a step of the text functions leaves alone
nonTextVars == <<reqVars, moreReqVars, srvVars, pipeVars, saveVars>>

vars == <<reqVars, textVars, moreReqVars, srvVars, pipeVars, saveVars>>

NoData == [kind |-> "good", size |-> 0]

NoPayload == [size |-> 0, jpeg |-> FALSE, content |-> "none"]

NoResponse ==
    [kind |-> "none", exc |-> "", ErrorMessage |-> [type |-> "null", str |-> "", list |-> <<>>],
     ErrorDetails |-> [type |-> "null", str |-> "", list |-> <<>>], parsed |-> <<>>]

NotHanded == [easy |-> "none", tess |-> "none", cloud |-> "none"]

NoGrid == [h |-> 0, w |-> 0, px |-> <<>>]

\* the request variables between two requests
Idle ==
    /\ path = "none"
    /\ pc = "idle"
    /\ mime = NoMime
    /\ data = NoData
    /\ lang = ""
    /\ calls = <<>>
    /\ text_easy = <<>>
    /\ text_tess = <<>>
    /\ easy_raised = FALSE
    /\ tess_raised = FALSE
    /\ payload = NoPayload
    /\ sent = <<>>
    /\ status = 0
    /\ detail = ""
    /\ text = <<>>

TextIdle ==
    /\ inp = <<>>
    /\ out1 = <<>>
    /\ out2 = <<>>
    /\ tpc = "unused"

\* bounds of the save specification: calls of save_text_to_disk, ticks of
\* the clock
MaxSaves == 3

MaxClock == 3

\* ticks of the clock in one second
TicksPerSecond == 2

NoFile == <<"<absent>">>

\* no save has been made: the export directory is empty
SaveIdle ==
    /\ clock = 0
    /\ files = [n \in 0..(MaxClock \div TicksPerSecond) |-> NoFile]
    /\ saved = <<>>

\* the further request variables between two requests
MoreIdle ==
    /\ response = NoResponse
    /\ errText = ""
    /\ handed = NotHanded

\* the process once app.main is imported and uvicorn serves: the reader is
\* built, no second request is present
Serving ==
    /\ ping = "none"
    /\ proc = "serving"
    /\ readerLoads = 1

PipeIdle ==
    /\ grid = NoGrid
    /\ gridIn = NoGrid
    /\ stages = <<>>
    /\ angle = 0
    /\ ppc = "unused"

Init ==
    /\ apiKey \in BOOLEAN
    /\ Idle
    /\ TextIdle
    /\ MoreIdle
    /\ SaveIdle
    /\ Serving
    /\ PipeIdle

\* ------------------------------------------------------------------------
\* Errors and their mapping to responses
\* ------------------------------------------------------------------------
ValueError(msg) == [type |-> "ValueError", msg |-> msg]

OtherError(msg) == [type |-> "Exception", msg |-> msg]

HTTPException(code, msg) == [type |-> "HTTPException", code |-> code, msg |-> msg]

\* the two except clauses that end extract_text_from_image
ServiceRaise(exc) ==
    IF exc.type = "ValueError" THEN ValueError(exc.msg) ELSE ValueError("internal")

\* the except clauses of ocr_extract
LocalRouteStatus(exc) ==
    IF exc.type = "ValueError" THEN 400 ELSE 500

\* the except clauses of ocr_extract_cloud
CloudRouteStatus(exc) ==
    IF exc.type = "ValueError" THEN 400
    ELSE IF exc.type = "HTTPException" THEN exc.code
    ELSE 500

\* IsImageMime testing only that a type is declared
IsImageMime_AnyType(m) == m.given /\ m.value # <<>>

\* not file.content_type or not file.content_type.startswith("image/")
IsImageMime(m) ==
    /\ m.given
    /\ m.value # <<>>
    /\ StartsWith(m.value, <<"i", "m", "a", "g", "e", "/">>)

\* ------------------------------------------------------------------------
\* Local path: ocr_extract and extract_text_from_image
\* ------------------------------------------------------------------------
NoError == [type |-> "none", msg |-> ""]

\* Image.open(io.BytesIO(data)) and the except clause around it
OpenCheck(kind) ==
    CASE kind = "unidentified" -> ValueError("corrupt")
      [] kind = "open_error" -> OtherError("open")
      [] OTHER -> NoError

\* Preprocess with the failure of a stage swallowed
Preprocess_Swallowed(kind) == [type |-> "none", msg |-> ""]

\* preprocess_image_bytes, _np_to_rgb and _resize_if_needed
Preprocess(kind) ==
    CASE kind = "decode_fails" -> OtherError("decode")
      [] kind = "filter_fails" -> OtherError("filter")
      [] OTHER -> NoError

\* the image reader.readtext is called with: rgb, the output of the
\* preprocessing pipeline after _np_to_rgb and _resize_if_needed
EasyInput == "rgb"

\* TessInput being the uploaded image instead of rgb
TessInput_Upload == "upload"

\* the image pytesseract.image_to_string is called with: Image.fromarray(rgb)
TessInput == "rgb"

\* the bytes ocr_extract_cloud calls extract_text_cloud with: data, as read
AdapterInput == "upload"

\* "\n".join([r[1] for r in results_easy if len(r) > 1]).strip()
EasyText(spans) == strip(join(<<"\n">>, spans))

\* Combine with the classical text first
Combine_TessFirst(te, tt) == strip(tt \o <<"\n">> \o te)

\* (text_easy + "\n" + text_tess).strip()
Combine(te, tt) == strip(te \o <<"\n">> \o tt)

\* MergeResult without the test for no text
MergeResult_NoEmptyTest(te, tt) ==
    [error |-> [type |-> "none", msg |-> ""],
     text |-> _post_clean_text(clean_ocr_text(strip(te \o <<"\n">> \o tt)))]

\* the end of the try block of extract_text_from_image: the combined text,
\* the test for no text, the two cleaning passes
MergeResult(te, tt) ==
    IF Combine(te, tt) = <<>>
    THEN [error |-> ValueError("no_text"), text |-> <<>>]
    ELSE [error |-> NoError,
          text |-> _post_clean_text(clean_ocr_text(Combine(te, tt)))]

\* extract_text_from_image raises exc; ocr_extract answers
LocalFail(exc) ==
    /\ status' = LocalRouteStatus(ServiceRaise(exc))
    /\ detail' = ServiceRaise(exc).msg
    /\ text' = <<>>
    /\ pc' = "done"

\* a request arrives at POST /api/ocr/
LocalArrive(m, k, n) ==
    /\ pc = "idle"
    /\ path' = "local"
    /\ mime' = m
    /\ data' = [kind |-> k, size |-> n]
    /\ pc' = "validate"
    /\ UNCHANGED <<apiKey, lang, calls, text_easy, text_tess, easy_raised,
                   tess_raised, payload, sent, status, detail, text>>
    /\ UNCHANGED <<moreReqVars, restVars>>

\* data = await file.read(); the MIME test
LocalValidate ==
    /\ path = "local"
    /\ pc = "validate"
    /\ calls' = Append(calls, "read")
    /\ IF IsImageMime(mime)
       THEN pc' = "open" /\ UNCHANGED <<status, detail, text>>
       ELSE LocalFail(ValueError("not_image"))
    /\ UNCHANGED <<apiKey, path, mime, data, lang, text_easy, text_tess,
                   easy_raised, tess_raised, payload, sent>>
    /\ UNCHANGED <<moreReqVars, restVars>>

\* Image.open on the uploaded bytes
LocalOpen ==
    /\ path = "local"
    /\ pc = "open"
    /\ calls' = Append(calls, "open")
    /\ IF OpenCheck(data.kind) = NoError
       THEN pc' = "preprocess" /\ UNCHANGED <<status, detail, text>>
       ELSE LocalFail(OpenCheck(data.kind))
    /\ UNCHANGED <<apiKey, path, mime, data, lang, text_easy, text_tess,
                   easy_raised, tess_raised, payload, sent>>
    /\ UNCHANGED <<moreReqVars, restVars>>

\* the preprocessing pipeline and the conversion handed to the engines
LocalPreprocess ==
    /\ path = "local"
    /\ pc = "preprocess"
    /\ calls' = Append(calls, "preprocess")
    /\ IF Preprocess(data.kind) = NoError
       THEN pc' = "easy" /\ UNCHANGED <<status, detail, text>>
       ELSE LocalFail(Preprocess(data.kind))
    /\ UNCHANGED <<apiKey, path, mime, data, lang, text_easy, text_tess,
                   easy_raised, tess_raised, payload, sent>>
    /\ UNCHANGED <<moreReqVars, restVars>>

\* LocalEasy without the try/except around readtext
LocalEasy_Unguarded ==
    /\ path = "local"
    /\ pc = "easy"
    /\ calls' = Append(calls, "easy")
    /\ \/ \E spans \in EasyResults :
             /\ text_easy' = strip(join(<<"\n">>, spans))
             /\ easy_raised' = FALSE
             /\ pc' = "tess"
             /\ UNCHANGED <<status, detail, text>>
       \/ /\ text_easy' = <<>>
          /\ easy_raised' = TRUE
          /\ status' = 400
          /\ detail' = "internal"
          /\ text' = <<>>
          /\ pc' = "done"
    /\ UNCHANGED <<apiKey, path, mime, data, lang, text_tess, tess_raised,
                   payload, sent>>
    /\ handed' = [handed EXCEPT !.easy = EasyInput]
    /\ UNCHANGED <<response, errText>>
    /\ UNCHANGED restVars

\* reader.readtext under its try/except: it returns spans or raises
LocalEasy ==
    /\ path = "local"
    /\ pc = "easy"
    /\ calls' = Append(calls, "easy")
    /\ \/ \E spans \in EasyResults :
             /\ text_easy' = EasyText(spans)
             /\ easy_raised' = FALSE
       \/ /\ text_easy' = <<>>
          /\ easy_raised' = TRUE
    /\ pc' = "tess"
    /\ UNCHANGED <<apiKey, path, mime, data, lang, text_tess, tess_raised,
                   payload, sent, status, detail, text>>
    /\ handed' = [handed EXCEPT !.easy = EasyInput]
    /\ UNCHANGED <<response, errText>>
    /\ UNCHANGED restVars

\* pytesseract.image_to_string under its try/except
LocalTess ==
    /\ path = "local"
    /\ pc = "tess"
    /\ calls' = Append(calls, "tess")
    /\ \/ \E t \in TessResults :
             /\ text_tess' = t
             /\ tess_raised' = FALSE
       \/ /\ text_tess' = <<>>
          /\ tess_raised' = TRUE
    /\ pc' = "merge"
    /\ UNCHANGED <<apiKey, path, mime, data, lang, text_easy, easy_raised,
                   payload, sent, status, detail, text>>
    /\ handed' = [handed EXCEPT !.tess = TessInput]
    /\ UNCHANGED <<response, errText>>
    /\ UNCHANGED restVars

\* combination, cleaning and the response of ocr_extract
LocalMerge ==
    /\ path = "local"
    /\ pc = "merge"
    /\ calls' = Append(calls, "merge")
    /\ LET r == MergeResult(text_easy, text_tess)
       IN  IF r.error = NoError
           THEN /\ status' = 200
                /\ detail' = ""
                /\ text' = strip(r.text)
                /\ pc' = "done"
           ELSE LocalFail(r.error)
    /\ UNCHANGED <<apiKey, path, mime, data, lang, text_easy, text_tess,
                   easy_raised, tess_raised, payload, sent>>
    /\ UNCHANGED <<moreReqVars, restVars>>

\* the response is delivered; the process waits for the next request
Respond ==
    /\ pc = "done"
    /\ path' = "none"
    /\ pc' = "idle"
    /\ mime' = NoMime
    /\ data' = NoData
    /\ lang' = ""
    /\ calls' = <<>>
    /\ text_easy' = <<>>
    /\ text_tess' = <<>>
    /\ easy_raised' = FALSE
    /\ tess_raised' = FALSE
    /\ payload' = NoPayload
    /\ sent' = <<>>
    /\ status' = 0
    /\ detail' = ""
    /\ text' = <<>>
    /\ UNCHANGED apiKey
    /\ response' = NoResponse
    /\ errText' = ""
    /\ handed' = NotHanded
    /\ UNCHANGED restVars

\* ------------------------------------------------------------------------
\* Cloud path: ocr_extract_cloud and extract_text_cloud
\* ------------------------------------------------------------------------
\* the quality _resize_image_if_needed encodes at
JpegQuality == 85

\* images by how they compress: "plain" encodes small at every quality,
\* "edge" meets the ceiling at quality 85, "dense" exceeds it at quality 75
\* and above only, "noise" exceeds it at every quality
Contents == {"plain", "edge", "dense", "noise"}

\* bytes of the JPEG encoding, at quality q, of an image of at most 1280
\* pixels a side
JpegSize(c, q) ==
    CASE c = "plain" -> 1000
      [] c = "edge" -> IF q >= 85 THEN MaxPayloadBytes ELSE 1000
      [] c = "dense" -> IF q >= 75 THEN MaxPayloadBytes + 1 ELSE MaxPayloadBytes
      [] OTHER -> MaxPayloadBytes + 1

\* sizes a JPEG of at most 1280 pixels a side, quality 85, may have
JpegSizes == {JpegSize(c, JpegQuality) : c \in Contents}

\* the bytes _resize_image_if_needed may return for the upload d: the JPEG
\* re-encoding when PIL loads the image, the upload itself when PIL raises
_resize_image_if_needed(d) ==
    IF d.kind \in {"good", "filter_fails"}
    THEN {[size |-> JpegSize(c, JpegQuality), jpeg |-> TRUE, content |-> c] :
             c \in Contents}
    ELSE {[size |-> d.size, jpeg |-> FALSE, content |-> "none"]}

\* TooLarge comparing with the size of the upload the ceiling is named for
TooLarge_WrongCeiling(p) == p.size > 2000000

\* len(safe_bytes) > 1_500_000
TooLarge(p) == p.size > MaxPayloadBytes

\* the "language" field of the form data
RequestLanguage(l) == l

\* the request extract_text_cloud posts
Request(p, l) ==
    [size |-> p.size, jpeg |-> p.jpeg, language |-> RequestLanguage(l)]

\* JSON values of the fields ErrorMessage and ErrorDetails
JNull == [type |-> "null", str |-> "", list |-> <<>>]

JStr(str) == [type |-> "str", str |-> str, list |-> <<>>]

JList(list) == [type |-> "list", str |-> "", list |-> list]

\* requests.post, raise_for_status or resp.json raised e; exc is str(e)
Failure(kind, exc) ==
    [kind |-> kind, exc |-> exc, ErrorMessage |-> JNull,
     ErrorDetails |-> JNull, parsed |-> <<>>]

\* a 2xx answer whose IsErroredOnProcessing is true
Errored(em, ed) ==
    [kind |-> "errored", exc |-> "", ErrorMessage |-> em,
     ErrorDetails |-> ed, parsed |-> <<>>]

\* any other 2xx answer; t is ParsedResults[0].ParsedText
Answer(kind, t) ==
    [kind |-> kind, exc |-> "", ErrorMessage |-> JNull,
     ErrorDetails |-> JNull, parsed |-> t]

\* what the remote engine may answer
Responses ==
    {Failure("timeout", "Read timed out. (read timeout=60)"),
     Failure("refused", "Max retries exceeded with url: /parse/image"),
     Failure("http_error", "403 Client Error: Forbidden for url"),
     Failure("http_error", "500 Server Error: Internal Server Error for url"),
     Failure("bad_json", "Expecting value: line 1 column 1 (char 0)"),
     Answer("not_object", <<>>),
     Errored(JList(<<"E101: timed out", "E102">>), JNull),
     Errored(JStr("E201: bad file"), JList(<<"details">>)),
     Errored(JList(<<>>), JStr("details")),
     Errored(JNull, JList(<<"details", "more">>)),
     Errored(JNull, JNull),
     Answer("no_results", <<>>),
     Answer("results", <<>>),
     Answer("results", <<" ", "\n">>),
     Answer("results", <<"H", "o", "l", "a", "\r", "\n">>)}

\* the truth value Python gives a JSON value in "a or b"
Truthy(j) ==
    \/ j.type = "str" /\ j.str # ""
    \/ j.type = "list" /\ j.list # <<>>

\* err_msg: ErrorMessage or ErrorDetails or ["Error desconocido"], a list
\* reduced to its first element
ErrMsg(r) ==
    LET m == IF Truthy(r.ErrorMessage) THEN r.ErrorMessage
             ELSE IF Truthy(r.ErrorDetails) THEN r.ErrorDetails
             ELSE JList(<<"Error desconocido">>)
    IN  IF m.type = "list" THEN m.list[1] ELSE m.str

\* ErrorText with the exception left out of the connection message
ErrorText_NoException(r) ==
    IF r.kind = "errored" THEN ErrMsg(r) ELSE ""

\* the text the f-string of the raised ValueError interpolates: {e} after
\* "Error al conectar con OCR.Space: ", {err_msg} after
\* "OCR.Space rechazó la imagen: "
ErrorText(r) ==
    CASE r.kind \in {"timeout", "refused", "http_error", "bad_json"} -> r.exc
      [] r.kind = "errored" -> ErrMsg(r)
      [] OTHER -> ""

\* steps 4 to 7 of extract_text_cloud on the answer r
ReadResponse(r) ==
    CASE r.kind \in {"timeout", "refused", "http_error", "bad_json"} ->
            [error |-> ValueError("connect"), text |-> <<>>]
      [] r.kind = "not_object" ->
            [error |-> OtherError("attribute"), text |-> <<>>]
      [] r.kind = "errored" ->
            [error |-> ValueError("rejected"), text |-> <<>>]
      [] OTHER ->
            IF strip(r.parsed) = <<>>
            THEN [error |-> ValueError("empty"), text |-> <<>>]
            ELSE [error |-> NoError, text |-> strip(r.parsed)]

\* extract_text_cloud raises exc; ocr_extract_cloud answers when it is the
\* caller
CloudFail(exc) ==
    /\ status' = IF path = "cloud" THEN CloudRouteStatus(exc) ELSE 0
    /\ detail' = exc.msg
    /\ text' = <<>>
    /\ pc' = "done"

\* a request arrives at POST /api/ocr/cloud/
CloudArrive(m, k, n) ==
    /\ pc = "idle"
    /\ path' = "cloud"
    /\ mime' = m
    /\ data' = [kind |-> k, size |-> n]
    /\ pc' = "validate"
    /\ UNCHANGED <<apiKey, lang, calls, text_easy, text_tess, easy_raised,
                   tess_raised, payload, sent, status, detail, text>>
    /\ UNCHANGED <<moreReqVars, restVars>>

\* the MIME test of ocr_extract_cloud, then data = await file.read() and
\* the call extract_text_cloud(data, file.filename, lang="spa")
CloudValidate ==
    /\ path = "cloud"
    /\ pc = "validate"
    /\ IF IsImageMime(mime)
       THEN /\ calls' = Append(calls, "read")
            /\ lang' = "spa"
            /\ pc' = "adapter"
            /\ handed' = [handed EXCEPT !.cloud = AdapterInput]
            /\ UNCHANGED <<status, detail, text>>
       ELSE /\ CloudFail(HTTPException(400, "not_image"))
            /\ UNCHANGED <<calls, lang, handed>>
    /\ UNCHANGED <<apiKey, path, mime, data, text_easy, text_tess,
                   easy_raised, tess_raised, payload, sent>>
    /\ UNCHANGED <<response, errText>>
    /\ UNCHANGED restVars

\* extract_text_cloud called by another caller, with a language of its choice
AdapterCall(k, n, l) ==
    /\ pc = "idle"
    /\ path' = "adapter"
    /\ data' = [kind |-> k, size |-> n]
    /\ lang' = l
    /\ pc' = "adapter"
    /\ UNCHANGED <<apiKey, mime, calls, text_easy, text_tess, easy_raised,
                   tess_raised, payload, sent, status, detail, text>>
    /\ handed' = [handed EXCEPT !.cloud = "upload"]
    /\ UNCHANGED <<response, errText>>
    /\ UNCHANGED restVars

\* steps 1 and 2 of extract_text_cloud: the API key, the resize, the size test
CloudPrepare ==
    /\ path \in {"cloud", "adapter"}
    /\ pc = "adapter"
    /\ IF ~apiKey
       THEN /\ CloudFail(ValueError("no_api_key"))
            /\ UNCHANGED <<calls, payload>>
       ELSE /\ calls' = Append(calls, "resize")
            /\ \E p \in _resize_image_if_needed(data) :
                  /\ payload' = p
                  /\ IF TooLarge(p)
                     THEN CloudFail(ValueError("too_large"))
                     ELSE pc' = "post" /\ UNCHANGED <<status, detail, text>>
    /\ UNCHANGED <<apiKey, path, mime, data, lang, text_easy, text_tess,
                   easy_raised, tess_raised, sent>>
    /\ UNCHANGED <<moreReqVars, restVars>>

\* CloudPost posting a second time when the first POST gets no response
CloudPost_RetryOnFailure ==
    /\ path \in {"cloud", "adapter"}
    /\ pc = "post"
    /\ calls' = Append(calls, "post")
    /\ \E r \in Responses :
          LET res == ReadResponse(r)
          IN  /\ response' = r
              /\ errText' = ErrorText(r)
              /\ sent' = IF r.kind \in {"timeout", "refused"}
                         THEN sent \o <<Request(payload, lang), Request(payload, lang)>>
                         ELSE Append(sent, Request(payload, lang))
              /\ IF res.error = NoError
                 THEN /\ status' = IF path = "cloud" THEN 200 ELSE 0
                      /\ detail' = ""
                      /\ text' = strip(res.text)
                      /\ pc' = "done"
                 ELSE CloudFail(res.error)
    /\ UNCHANGED <<apiKey, path, mime, data, lang, text_easy, text_tess,
                   easy_raised, tess_raised, payload>>
    /\ UNCHANGED handed
    /\ UNCHANGED restVars

\* steps 3 to 7: the POST and the reading of the answer
CloudPost ==
    /\ path \in {"cloud", "adapter"}
    /\ pc = "post"
    /\ calls' = Append(calls, "post")
    /\ sent' = Append(sent, Request(payload, lang))
    /\ \E r \in Responses :
          LET res == ReadResponse(r)
          IN  /\ response' = r
              /\ errText' = ErrorText(r)
              /\ IF res.error = NoError
                 THEN /\ status' = IF path = "cloud" THEN 200 ELSE 0
                      /\ detail' = ""
                      /\ text' = strip(res.text)
                      /\ pc' = "done"
                 ELSE CloudFail(res.error)
    /\ UNCHANGED <<apiKey, path, mime, data, lang, text_easy, text_tess,
                   easy_raised, tess_raised, payload>>
    /\ UNCHANGED handed
    /\ UNCHANGED restVars

\* ------------------------------------------------------------------------
\* Specification of the request handlers
\* ------------------------------------------------------------------------
Next ==
    \/ \E m \in Mimes, k \in DataKinds, n \in LocalSizes : LocalArrive(m, k, n)
    \/ LocalValidate
    \/ LocalOpen
    \/ LocalPreprocess
    \/ LocalEasy
    \/ LocalTess
    \/ LocalMerge
    \/ \E m \in Mimes, k \in DataKinds, n \in Sizes : CloudArrive(m, k, n)
    \/ CloudValidate
    \/ \E k \in DataKinds, n \in Sizes, l \in Langs : AdapterCall(k, n, l)
    \/ CloudPrepare
    \/ CloudPost
    \/ Respond

Spec == Init /\ [][Next]_vars

\* ------------------------------------------------------------------------
\* Specification of the text functions: declutter applied to a text, then to
\* its own result
\* ------------------------------------------------------------------------
\* characters of the enumerated texts: a letter, a digit, a punctuation mark
\* stripped from the start of a line, a symbol that counts against a line,
\* a space, a line break
TextAlphabet == {"a", "1", "-", "#", " ", "\n"}

BoundedTexts(n) == UNION {[1..k -> TextAlphabet] : k \in 0..n}

ScenarioE == <<"H", "o", "l", "a", " ", " ", " ", "m", "u", "n", "d", "o", "\n", "\n", "\n", "\n", "A", "d", "i", "ó", "s">>

ScenarioTexts == {ScenarioE, <<"1", "2", "3", "4", "5">>, <<";", ";", ";", ":", ":", ":">>, <<"a", " ", "\t", " ", "b", "\r", "\n", "\r", "\n", "c">>}

TextInputs == BoundedTexts(MaxLen) \cup ScenarioTexts

TextInit ==
    /\ apiKey = FALSE
    /\ Idle
    /\ MoreIdle
    /\ SaveIdle
    /\ Serving
    /\ PipeIdle
    /\ inp \in TextInputs
    /\ out1 = <<>>
    /\ out2 = <<>>
    /\ tpc = "input"

DeclutterOnce ==
    /\ tpc = "input"
    /\ out1' = declutter(inp)
    /\ tpc' = "once"
    /\ UNCHANGED <<inp, out2>>
    /\ UNCHANGED nonTextVars

DeclutterTwice ==
    /\ tpc = "once"
    /\ out2' = declutter(out1)
    /\ tpc' = "twice"
    /\ UNCHANGED <<inp, out1>>
    /\ UNCHANGED nonTextVars

TextNext ==
    \/ DeclutterOnce
    \/ DeclutterTwice

SpecText == TextInit /\ [][TextNext]_vars

\* ------------------------------------------------------------------------
\* Specification of the process: the import of app.main, then the requests
\* ------------------------------------------------------------------------
\* ImportModules with the reader left to be built later
ImportModules_LazyReader ==
    /\ proc = "importing"
    /\ proc' = "serving"
    /\ UNCHANGED <<ping, readerLoads>>
    /\ UNCHANGED <<reqVars, moreReqVars, textVars, pipeVars, saveVars>>

\* uvicorn imports app.main: ocr_routes imports service, service imports
\* reader from app.ocr.reader, whose module body builds easyocr.Reader; only
\* then are requests served
ImportModules ==
    /\ proc = "importing"
    /\ readerLoads' = readerLoads + 1
    /\ proc' = "serving"
    /\ UNCHANGED ping
    /\ UNCHANGED <<reqVars, moreReqVars, textVars, pipeVars, saveVars>>

ServerInit ==
    /\ apiKey \in BOOLEAN
    /\ Idle
    /\ TextIdle
    /\ MoreIdle
    /\ SaveIdle
    /\ PipeIdle
    /\ ping = "none"
    /\ proc = "importing"
    /\ readerLoads = 0

ServerNext ==
    \/ ImportModules
    \/ proc = "serving" /\ Next

SpecServer == ServerInit /\ [][ServerNext]_vars

\* ------------------------------------------------------------------------
\* Specification of the event loop: a request and a GET /api/ocr/ping beside it
\* ------------------------------------------------------------------------
\* the coroutine of the request runs on the event loop thread and reaches no
\* await: extract_text_from_image from the return of file.read() to its end,
\* ocr_extract_cloud through the call of extract_text_cloud (requests.post)
LoopHeld ==
    /\ path \in {"local", "cloud"}
    /\ pc \in {"open", "preprocess", "easy", "tess", "merge", "adapter", "post"}

\* a client sends GET /api/ocr/ping while a request is being handled
PingArrive ==
    /\ ping = "none"
    /\ path \in {"local", "cloud"}
    /\ pc # "done"
    /\ ping' = "waiting"
    /\ UNCHANGED <<proc, readerLoads>>
    /\ UNCHANGED <<reqVars, moreReqVars, textVars, pipeVars, saveVars>>

\* the event loop accepts the request, runs ping and sends its answer; it
\* can do so only when no coroutine holds its thread
PingServe ==
    /\ ping = "waiting"
    /\ ~LoopHeld
    /\ ping' = "answered"
    /\ UNCHANGED <<proc, readerLoads>>
    /\ UNCHANGED <<reqVars, moreReqVars, textVars, pipeVars, saveVars>>

LoopNext ==
    \/ Next
    \/ PingArrive
    \/ PingServe

SpecLoop == Init /\ [][LoopNext]_vars

\* ------------------------------------------------------------------------
\* Specification of preprocess_image_bytes
\* ------------------------------------------------------------------------
\* 8-bit samples of the enumerated images
SampleValues == {0, 128, 255}

\* height and width of the enumerated images
Shapes == {<<1, 1>>, <<1, 2>>}

\* the grids of height h and width w whose samples are in vals
Grids(h, w, vals) == {[h |-> h, w |-> w, px |-> p] : p \in [1..(h * w) -> vals]}

\* the grids of the shape of g
SameShape(g, vals) == Grids(g.h, g.w, vals)

Samples(g) == {g.px[i] : i \in 1..Len(g.px)}

\* np.where(img > 0)
Foreground(g) == {i \in 1..Len(g.px) : g.px[i] > 0}

\* angles cv2.minAreaRect may report as rect[-1]
RawAngles == {-90, -60, -45, -30, 0, 30, 90}

\* if angle < -45: angle = -(90 + angle) else: angle = -angle
DeskewAngle(raw) == IF raw < -45 THEN -(90 + raw) ELSE -raw

\* DeskewAngles without the test coords.size > 0
DeskewAngles_NoForegroundTest(g) == {DeskewAngle(raw) : raw \in RawAngles}

\* the angle deskew_image rotates by: 0.0 when no sample is above 0
DeskewAngles(g) ==
    IF Foreground(g) = {} THEN {0} ELSE {DeskewAngle(raw) : raw \in RawAngles}

\* cv2.warpAffine(img, M, (w, h), INTER_CUBIC, BORDER_REPLICATE) for the
\* rotation by a about the centre: the identity for a = 0, a constant image
\* for a constant image, otherwise some image of the same shape
Rotations(g, a) ==
    IF a = 0 \/ Cardinality(Samples(g)) <= 1 THEN {g} ELSE SameShape(g, SampleValues)

\* pixels of p that are at most t, and their sum
RECURSIVE CountLE(_, _)
CountLE(p, t) ==
    IF p = <<>> THEN 0
    ELSE (IF Head(p) <= t THEN 1 ELSE 0) + CountLE(Tail(p), t)

RECURSIVE SumLE(_, _)
SumLE(p, t) ==
    IF p = <<>> THEN 0
    ELSE (IF Head(p) <= t THEN Head(p) ELSE 0) + SumLE(Tail(p), t)

\* between-class variance of the split at t, as numerator and denominator
\* (times the square of the number of pixels)
SigmaNum(p, t) ==
    LET n0 == CountLE(p, t)
        n1 == Len(p) - n0
        s0 == SumLE(p, t)
        s1 == SumLE(p, 255) - s0
    IN  (s0 * n1 - s1 * n0) * (s0 * n1 - s1 * n0)

SigmaDen(p, t) == CountLE(p, t) * (Len(p) - CountLE(p, t))

\* the split at t separates the classes better than the split at u
BetterSplit(p, t, u) ==
    /\ SigmaDen(p, t) > 0
    /\ \/ SigmaDen(p, u) = 0 /\ SigmaNum(p, t) > 0
       \/ SigmaDen(p, u) > 0
            /\ SigmaNum(p, t) * SigmaDen(p, u) > SigmaNum(p, u) * SigmaDen(p, t)

\* the threshold THRESH_OTSU chooses: the lowest level of the greatest
\* between-class variance, 0 for a constant image
OtsuThreshold(g) ==
    LET best == {t \in Samples(g) :
                   /\ BetterSplit(g.px, t, 255)
                   /\ \A u \in Samples(g) : ~BetterSplit(g.px, u, t)}
    IN  IF best = {} THEN 0 ELSE CHOOSE t \in best : \A u \in best : t <= u

\* Threshold keeping the samples above the threshold (THRESH_TOZERO)
Threshold_ToZero(g) ==
    [g EXCEPT !.px = [i \in 1..Len(g.px) |->
                         IF g.px[i] > OtsuThreshold(g) THEN g.px[i] ELSE 0]]

\* cv2.threshold(img, 0, 255, cv2.THRESH_BINARY + cv2.THRESH_OTSU)
Threshold(g) ==
    [g EXCEPT !.px = [i \in 1..Len(g.px) |->
                         IF g.px[i] > OtsuThreshold(g) THEN 255 ELSE 0]]

\* cv2.resize(img, None, fx=2, fy=2, interpolation=cv2.INTER_CUBIC): twice
\* the height and the width; a constant image stays constant, an image of
\* one row gives two equal rows
Upscaled(g) ==
    IF Cardinality(Samples(g)) <= 1
    THEN {[h |-> 2 * g.h, w |-> 2 * g.w, px |-> [i \in 1..(4 * g.h * g.w) |-> g.px[1]]]}
    ELSE IF g.h = 1
    THEN {[h |-> 2, w |-> 2 * g.w, px |-> row \o row] :
             row \in [1..(2 * g.w) -> SampleValues]}
    ELSE Grids(2 * g.h, 2 * g.w, SampleValues)

\* one stage of the pipeline: from position "from" to position "to", the
\* grid becoming one of outs
Stage(from, to, name, outs) ==
    /\ ppc = from
    /\ grid' \in outs
    /\ gridIn' = grid
    /\ stages' = Append(stages, name)
    /\ ppc' = to

\* img = bytes_to_grayscale(image_bytes)
StageDecode ==
    /\ Stage("start", "gray", "decode",
             UNION {Grids(sh[1], sh[2], SampleValues) : sh \in Shapes})
    /\ UNCHANGED angle
    /\ UNCHANGED <<reqVars, moreReqVars, textVars, srvVars, saveVars>>

\* img = denoise_and_contrast(img)
StageDenoise ==
    /\ Stage("gray", "denoised", "denoise", SameShape(grid, SampleValues))
    /\ UNCHANGED angle
    /\ UNCHANGED <<reqVars, moreReqVars, textVars, srvVars, saveVars>>

\* img = binarize_and_clean(img): adaptive threshold, opening, subtraction
\* and median blur leave samples 0 and 255
StageBinarize ==
    /\ Stage("denoised", "binarized", "binarize", SameShape(grid, {0, 255}))
    /\ UNCHANGED angle
    /\ UNCHANGED <<reqVars, moreReqVars, textVars, srvVars, saveVars>>

\* img = deskew_image(img)
StageDeskew ==
    /\ \E a \in DeskewAngles(grid) :
          /\ angle' = a
          /\ Stage("binarized", "deskewed", "deskew", Rotations(grid, a))
    /\ UNCHANGED <<reqVars, moreReqVars, textVars, srvVars, saveVars>>

\* img = enhance_sharpness(img)
StageSharpen ==
    /\ Stage("deskewed", "sharpened", "sharpen", SameShape(grid, SampleValues))
    /\ angle' = 0
    /\ UNCHANGED <<reqVars, moreReqVars, textVars, srvVars, saveVars>>

\* img = cv2.resize(img, None, fx=2, fy=2, interpolation=cv2.INTER_CUBIC)
StageUpscale ==
    /\ Stage("sharpened", "upscaled", "upscale", Upscaled(grid))
    /\ UNCHANGED angle
    /\ UNCHANGED <<reqVars, moreReqVars, textVars, srvVars, saveVars>>

\* _, img = cv2.threshold(...); return img
StageThreshold ==
    /\ Stage("upscaled", "done", "threshold", {Threshold(grid)})
    /\ UNCHANGED angle
    /\ UNCHANGED <<reqVars, moreReqVars, textVars, srvVars, saveVars>>

PipeInit ==
    /\ apiKey = FALSE
    /\ Idle
    /\ TextIdle
    /\ MoreIdle
    /\ SaveIdle
    /\ Serving
    /\ grid = NoGrid
    /\ gridIn = NoGrid
    /\ stages = <<>>
    /\ angle = 0
    /\ ppc = "start"

PipeNext ==
    \/ StageDecode
    \/ StageDenoise
    \/ StageBinarize
    \/ StageDeskew
    \/ StageSharpen
    \/ StageUpscale
    \/ StageThreshold

SpecPipe == PipeInit /\ [][PipeNext]_vars

\* ------------------------------------------------------------------------
\* Specification of the cleaning of the local path: the text of an engine
\* combined, cleaned by clean_ocr_text, then by _post_clean_text
\* ------------------------------------------------------------------------
\* characters of the enumerated engine texts: a letter, a digit, a space and
\* the three line breaks
CleanAlphabet == {"a", "1", " ", "\n", "\r", "\f"}

EngineTexts ==
    {<<"H", "o", "l", "a", "\r", "\n", "F", "i", "n", ".", "\r", "\n", "\f">>,
     <<" ", "H", "o", "l", "a", " ", "\r", " ", "F", "i", "n", ".", "\t">>,
     <<"\r", "H", "o", "l", "a", "\r", "\r", "h", "o", "l", "a", "\f">>,
     <<"a", "b", "c", "#", "#", "#", "#", "#", "#", "#", "#", "#">>,
     <<"H", "o", "l", "a", "\n", "*", "*", "x", "*", "*", "*", "*">>}

CleanInputs == UNION {[1..k -> CleanAlphabet] : k \in 0..MaxLen} \cup EngineTexts

CleanInit ==
    /\ apiKey = FALSE
    /\ Idle
    /\ MoreIdle
    /\ SaveIdle
    /\ Serving
    /\ PipeIdle
    /\ inp \in CleanInputs
    /\ out1 = <<>>
    /\ out2 = <<>>
    /\ tpc = "raw"

\* combined = (text_easy + "\n" + text_tess).strip() with the neural text
\* empty; the test for no text; cleaned = clean_ocr_text(combined)
CleanCombined ==
    /\ tpc = "raw"
    /\ IF Combine(<<>>, inp) = <<>>
       THEN tpc' = "no_text" /\ out1' = out1
       ELSE tpc' = "cleaned" /\ out1' = clean_ocr_text(Combine(<<>>, inp))
    /\ UNCHANGED <<inp, out2>>
    /\ UNCHANGED nonTextVars

\* cleaned = _post_clean_text(cleaned); the text of the response is
\* (result.get("text") or "").strip()
PostClean ==
    /\ tpc = "cleaned"
    /\ out2' = strip(_post_clean_text(out1))
    /\ tpc' = "final"
    /\ UNCHANGED <<inp, out1>>
    /\ UNCHANGED nonTextVars

CleanNext ==
    \/ CleanCombined
    \/ PostClean

SpecClean == CleanInit /\ [][CleanNext]_vars

\* ------------------------------------------------------------------------
\* Specification of normalize_text followed by declutter
\* ------------------------------------------------------------------------
\* characters of the enumerated texts: a letter, the two ligatures, the two
\* dashes, a line break
NormAlphabet == {"a", "<fi>", "<fl>", "<emdash>", "<endash>", "\n"}

NormInputs == UNION {[1..k -> NormAlphabet] : k \in 0..MaxLen}

NormInit ==
    /\ apiKey = FALSE
    /\ Idle
    /\ MoreIdle
    /\ SaveIdle
    /\ Serving
    /\ PipeIdle
    /\ inp \in NormInputs
    /\ out1 = <<>>
    /\ out2 = <<>>
    /\ tpc = "text"

\* text = normalize_text(text)
Normalize ==
    /\ tpc = "text"
    /\ out1' = normalize_text(inp)
    /\ tpc' = "normalized"
    /\ UNCHANGED <<inp, out2>>
    /\ UNCHANGED nonTextVars

\* collapse_spaces(strip_garbage_prefix(text)) on the normalized text
DeclutterNormalized ==
    /\ tpc = "normalized"
    /\ out2' = declutter(out1)
    /\ tpc' = "decluttered"
    /\ UNCHANGED <<inp, out1>>
    /\ UNCHANGED nonTextVars

NormNext ==
    \/ Normalize
    \/ DeclutterNormalized

SpecNorm == NormInit /\ [][NormNext]_vars

\* ------------------------------------------------------------------------
\* Specification of _post_clean_text on texts of a few lines
\* ------------------------------------------------------------------------
\* lines of the enumerated texts: words that differ in case or in spacing
\* only, short words, lines of digits and letters in several proportions
PostLinePool ==
    {<<"a", "a", " ", "a">>, <<"a", "a", " ", " ", "a">>, <<"A", "A", " ", "a">>,
     <<"H", "o", "l", "a">>, <<"h", "o", "l", "a">>, <<"N", "o">>,
     <<"a", "1", "1">>, <<"a", "1", "1", "1">>, <<"1", "2", "3">>, <<" ">>}

PostInputs ==
    {join(<<"\n">>, ls) : ls \in UNION {[1..k -> PostLinePool] : k \in 0..MaxPostLines}}

PostInit ==
    /\ apiKey = FALSE
    /\ Idle
    /\ MoreIdle
    /\ SaveIdle
    /\ Serving
    /\ PipeIdle
    /\ inp \in PostInputs
    /\ out1 = <<>>
    /\ out2 = <<>>
    /\ tpc = "merged"

\* _post_clean_text(text)
PostCleanText ==
    /\ tpc = "merged"
    /\ out1' = _post_clean_text(inp)
    /\ tpc' = "post"
    /\ UNCHANGED <<inp, out2>>
    /\ UNCHANGED nonTextVars

PostNext == PostCleanText

SpecPost == PostInit /\ [][PostNext]_vars

\* ------------------------------------------------------------------------
\* Specification of _resize_if_needed
\* ------------------------------------------------------------------------
\* max_dim
MaxDim == 1280

\* heights and widths of the enumerated grids
Sides == {1, 2, 640, 1280, 1281, 2560, 2561, 5000}

\* int(x * ratio) with ratio = max_dim / float(max(h, w)), m being max(h, w):
\* the quotient cut to an integer (for the enumerated sides the float
\* product cuts to the same integer)
ScaledSide(x, m) == (x * MaxDim) \div m

\* _resize_if_needed(img): the grid returned, or the error of cv2.resize,
\* which rejects a size with a side of 0
ResizedGrid(g) ==
    LET m == IF g.h >= g.w THEN g.h ELSE g.w
    IN  IF m > MaxDim
        THEN IF ScaledSide(g.w, m) >= 1 /\ ScaledSide(g.h, m) >= 1
             THEN [raised |-> FALSE,
                   img |-> [h |-> ScaledSide(g.h, m), w |-> ScaledSide(g.w, m),
                            px |-> <<>>]]
             ELSE [raised |-> TRUE, img |-> NoGrid]
        ELSE [raised |-> FALSE, img |-> g]

ResizeInit ==
    /\ apiKey = FALSE
    /\ Idle
    /\ TextIdle
    /\ MoreIdle
    /\ SaveIdle
    /\ Serving
    /\ grid \in {[h |-> h, w |-> w, px |-> <<>>] : h \in Sides, w \in Sides}
    /\ gridIn = NoGrid
    /\ stages = <<>>
    /\ angle = 0
    /\ ppc = "rgb"

\* rgb = _resize_if_needed(rgb)
ResizeIfNeeded ==
    /\ ppc = "rgb"
    /\ gridIn' = grid
    /\ grid' = ResizedGrid(grid).img
    /\ ppc' = IF ResizedGrid(grid).raised THEN "resize_raised" ELSE "resized"
    /\ UNCHANGED <<stages, angle>>
    /\ UNCHANGED <<reqVars, moreReqVars, textVars, srvVars, saveVars>>

ResizeNext == ResizeIfNeeded

SpecResize == ResizeInit /\ [][ResizeNext]_vars

\* ------------------------------------------------------------------------
\* Specification of save_text_to_disk
\* ------------------------------------------------------------------------
\* texts handed to save_text_to_disk
SaveTexts == {<<"a">>, <<"b">>, <<" ", "a", "\n">>}

\* datetime.utcnow().strftime("%Y%m%d_%H%M%S") in "ocr_{now}.txt": the time
\* cut to the second
FileName(now) == now \div TicksPerSecond

\* time passes
Tick ==
    /\ clock < MaxClock
    /\ clock' = clock + 1
    /\ UNCHANGED <<files, saved>>
    /\ UNCHANGED <<reqVars, moreReqVars, textVars, srvVars, pipeVars>>

\* save_text_to_disk(t): open(file_path, "w") creates or truncates the
\* file, text.strip() is written, the base name is returned
SaveText(t) ==
    /\ Len(saved) < MaxSaves
    /\ files' = [files EXCEPT ![FileName(clock)] = strip(t)]
    /\ saved' = Append(saved, [name |-> FileName(clock), text |-> strip(t)])
    /\ UNCHANGED clock
    /\ UNCHANGED <<reqVars, moreReqVars, textVars, srvVars, pipeVars>>

SaveInit ==
    /\ apiKey = FALSE
    /\ Idle
    /\ TextIdle
    /\ MoreIdle
    /\ SaveIdle
    /\ Serving
    /\ PipeIdle

SaveNext ==
    \/ Tick
    \/ \E t \in SaveTexts : SaveText(t)

SpecSave == SaveInit /\ [][SaveNext]_vars

\* ------------------------------------------------------------------------
\* Properties of declutter (SpecText)
\* ------------------------------------------------------------------------
\* str.isalpha
AlphaChars == AlnumChars \ Digits

\* the lines of a text that hold something besides whitespace
TextLines(s) == StrippedNonEmpty(splitlines(s))

\* no tab and no two adjacent spaces
NoBlankRun(s) ==
    /\ \A i \in 1..Len(s) : s[i] # "\t"
    /\ \A i \in 1..(Len(s) - 1) : ~(s[i] = " " /\ s[i + 1] = " ")

\* no line of s is empty
NoBlankLine(s) ==
    /\ s # <<>> => s[1] # "\n" /\ s[Len(s)] # "\n"
    /\ \A i \in 1..(Len(s) - 1) : ~(s[i] = "\n" /\ s[i + 1] = "\n")

\* C5: declutter is idempotent: a second pass over the result of declutter
\* changes nothing.
C5_DeclutterIdempotent ==
    tpc = "twice" => out2 = out1

\* C6 as stated: the four line breaks of scenario E leave one blank line,
\* the result being "Hola mundo\n\nAdiós".
C6_ScenarioEKeepsBlankLine ==
    (tpc = "once" /\ inp = ScenarioE) => out1 = <<"H", "o", "l", "a", " ", "m", "u", "n", "d", "o", "\n", "\n", "A", "d", "i", "ó", "s">>

\* C6 as amended: declutter collapses each run of spaces and tabs to one
\* space and leaves no blank line between the surviving lines; scenario E
\* yields "Hola mundo\nAdiós".
C6_CollapsesRunsDropsBlankLines ==
    tpc \in {"once", "twice"} =>
        /\ NoBlankRun(out1)
        /\ NoBlankLine(out1)
        /\ inp = ScenarioE => out1 = <<"H", "o", "l", "a", " ", "m", "u", "n", "d", "o", "\n", "A", "d", "i", "ó", "s">>

C6_Witness ==
    /\ tpc = "once"
    /\ inp = ScenarioE
    /\ out1 = <<"H", "o", "l", "a", " ", "m", "u", "n", "d", "o", "\n", "A", "d", "i", "ó", "s">>

\* C7: every line of the output of declutter holds an alphabetic character,
\* and the output has no more lines than the input has lines that hold an
\* alphabetic character, so a line of digits or of symbols never survives.
C7_NoLineWithoutLetters ==
    tpc \in {"once", "twice"} =>
        /\ \A i \in 1..Len(splitlines(out1)) :
              HasChar(splitlines(out1)[i], AlphaChars)
        /\ Len(splitlines(out1))
             <= Cardinality({i \in 1..Len(splitlines(inp)) :
                               HasChar(splitlines(inp)[i], AlphaChars)})

C7_Witness ==
    /\ tpc = "once"
    /\ \E i \in 1..Len(TextLines(inp)) : ~HasChar(TextLines(inp)[i], AlphaChars)
    /\ \E i \in 1..Len(TextLines(inp)) : TextLines(inp)[i] \in {<<"1">>, <<"-", "-">>}
    /\ out1 # <<>>

\* ------------------------------------------------------------------------
\* Properties of the request handlers (Spec)
\* ------------------------------------------------------------------------
Called(op) == \E i \in 1..Len(calls) : calls[i] = op

RECURSIVE IsSubseq(_, _)
IsSubseq(a, b) ==
    IF a = <<>> THEN TRUE
    ELSE IF b = <<>> THEN FALSE
    ELSE IF Head(a) = Head(b) THEN IsSubseq(Tail(a), Tail(b))
    ELSE IsSubseq(a, Tail(b))

\* the declared type is missing or does not start with "image/"
NotAnImageType(m) ==
    ~m.given \/ ~StartsWith(m.value, <<"i", "m", "a", "g", "e", "/">>)

\* the default of the lang parameter of extract_text_cloud
DefaultLang == "spa"

\* C1: on the local path, when both engines contribute empty text (returned
\* or put in place of an exception), the request ends with the
\* no-text-detected error and status 400, never with a success.
C1_BothEmptyIsNoText ==
    (/\ path = "local"
     /\ pc = "done"
     /\ Called("tess")
     /\ strip(text_easy) = <<>>
     /\ strip(text_tess) = <<>>)
        => status = 400 /\ detail = "no_text" /\ text = <<>>

C1_Witness ==
    /\ path = "local"
    /\ pc = "done"
    /\ easy_raised
    /\ text_tess = <<" ", "\n">>
    /\ status = 400
    /\ detail = "no_text"

\* C2: every payload extract_text_cloud posts has at most 1,500,000 bytes,
\* and when the bytes it holds after resizing are larger it has posted
\* nothing and ends with the payload-too-large error.
C2_PayloadWithinCeiling ==
    /\ \A i \in 1..Len(sent) : sent[i].size <= MaxPayloadBytes
    /\ payload.size > MaxPayloadBytes =>
          /\ sent = <<>>
          /\ ~Called("post")
          /\ pc = "done"
          /\ detail = "too_large"

C2_Witness ==
    /\ path = "cloud"
    /\ data.size > MaxPayloadBytes
    /\ Len(sent) = 1
    /\ sent[1].size <= MaxPayloadBytes

\* C3: when extract_text_cloud is called with a language code outside the
\* allow-list of the remote engine, the language field of the request it
\* posts is the default language, never the unsupported code.
C3_UnsupportedLanguageReplaced ==
    \A i \in 1..Len(sent) :
        /\ sent[i].language \notin UnsupportedLangs
        /\ lang \in UnsupportedLangs => sent[i].language = DefaultLang

\* C4: on the local and on the cloud route, a request whose declared type
\* is missing or does not start with "image/" ends with status 400 and the
\* invalid-input error, and nothing but the read of the upload is done for
\* it: no decoding, no preprocessing, no engine call, no remote request.
C4_NonImageRejectedFirst ==
    (/\ path \in {"local", "cloud"}
     /\ pc # "validate"
     /\ NotAnImageType(mime))
        => /\ pc = "done"
           /\ status = 400
           /\ detail = "not_image"
           /\ \A i \in 1..Len(calls) : calls[i] = "read"
           /\ sent = <<>>

C4_Witness ==
    /\ path = "cloud"
    /\ mime = Mime(<<"a", "p", "p", "l", "i", "c", "a", "t", "i", "o", "n", "/", "p", "d", "f">>)
    /\ pc = "done"
    /\ status = 400
    /\ calls = <<>>

\* C8: when both local engines contribute text, the lines of the final
\* text are lines that survive the cleaning of the neural text, in their
\* order, followed by lines that survive the cleaning of the classical
\* text, in their order.
C8_NeuralBeforeClassical ==
    (/\ path = "local"
     /\ pc = "done"
     /\ status = 200
     /\ text_easy # <<>>
     /\ strip(text_tess) # <<>>)
        => \E k \in 0..Len(splitlines(text)) :
              /\ IsSubseq(SubSeq(splitlines(text), 1, k),
                          splitlines(clean_ocr_text(text_easy)))
              /\ IsSubseq(SubSeq(splitlines(text), k + 1, Len(splitlines(text))),
                          splitlines(clean_ocr_text(text_tess)))

C8_Witness ==
    /\ path = "local"
    /\ pc = "done"
    /\ status = 200
    /\ text_easy = <<"H", "o", "l", "a">>
    /\ text_tess = <<"F", "i", "n", ".", "\n">>
    /\ text = <<"H", "o", "l", "a", "\n", "F", "i", "n", ".">>

\* C9: an exception of one local engine does not end the request: the
\* engine contributes the empty text, the request goes on through the other
\* engine and the merge, and when the other engine's text is not empty the
\* response is the cleaning of that text alone.
C9_EngineFailureDoesNotAbort ==
    path = "local" =>
        /\ easy_raised => text_easy = <<>> /\ pc \in {"tess", "merge", "done"}
        /\ tess_raised => text_tess = <<>> /\ pc \in {"merge", "done"}
        /\ (easy_raised \/ tess_raised) /\ pc # "done" => status = 0
        /\ (easy_raised \/ tess_raised) /\ pc = "done" =>
              calls = <<"read", "open", "preprocess", "easy", "tess", "merge">>
        /\ easy_raised /\ pc = "done" /\ strip(text_tess) # <<>> =>
              /\ status = 200
              /\ text = strip(_post_clean_text(clean_ocr_text(strip(text_tess))))
        /\ tess_raised /\ pc = "done" /\ text_easy # <<>> =>
              /\ status = 200
              /\ text = strip(_post_clean_text(clean_ocr_text(text_easy)))

C9_Witness ==
    /\ path = "local"
    /\ pc = "done"
    /\ easy_raised
    /\ ~tess_raised
    /\ status = 200
    /\ text = <<"H", "o", "l", "a">>

\* C10: when the image does not open, does not decode or a preprocessing
\* stage raises, the request ends at that step with an error: no later
\* stage and no engine runs and the response is no success.
C10_PreprocessingFailureAborts ==
    path = "local" =>
        /\ data.kind \in {"unidentified", "open_error"} /\ Called("open") =>
              /\ pc = "done"
              /\ status = 400
              /\ calls = <<"read", "open">>
        /\ data.kind \in {"decode_fails", "filter_fails"} /\ Called("preprocess") =>
              /\ pc = "done"
              /\ status = 400
              /\ calls = <<"read", "open", "preprocess">>

C10_Witness ==
    /\ path = "local"
    /\ pc = "done"
    /\ data.kind = "filter_fails"
    /\ calls = <<"read", "open", "preprocess">>
    /\ status = 400
    /\ detail = "internal"

\* the kinds of exception extract_text_from_image does not raise itself
UnexpectedKinds == {"open_error", "decode_fails", "filter_fails"}

\* C11: on the local path, a request of a declared image type that ends
\* because Image.open, the decoding or a preprocessing stage raises an
\* unexpected exception is answered with a 5xx status, where the errors
\* attributable to the input are answered with a 4xx status.
C11_UnexpectedErrorIsServerError ==
    (/\ path = "local"
     /\ pc = "done"
     /\ ~NotAnImageType(mime)
     /\ data.kind \in UnexpectedKinds)
        => status >= 500 /\ status <= 599

\* the POST got no response at all
NoResponseKinds == {"timeout", "refused"}

\* C14: one invocation of extract_text_cloud posts at most one request; when
\* the POST times out or fails in transport, exactly one request has been
\* posted and the invocation ends with the connection error.
C14_AtMostOnePost ==
    /\ Len(sent) <= 1
    /\ (pc = "done" /\ response.kind \in NoResponseKinds) =>
          /\ Len(sent) = 1
          /\ detail = "connect"
          /\ text = <<>>
          /\ status \in {0, 400}

C14_Witness ==
    /\ path = "cloud"
    /\ pc = "done"
    /\ response.kind = "timeout"
    /\ Len(sent) = 1
    /\ detail = "connect"
    /\ status = 400

\* the three failure shapes of the remote engine
Shape(r) ==
    CASE r.kind \in NoResponseKinds -> "transport"
      [] r.kind = "http_error" -> "status"
      [] r.kind = "errored" -> "processing"
      [] OTHER -> "other"

\* the message extract_text_cloud raises for the answer r: its template and
\* the text interpolated into it
Message(r) == <<ReadResponse(r).error.msg, ErrorText(r)>>

\* C15: a transport failure, a non-2xx status and a 2xx answer flagged as
\* errored each end extract_text_cloud with an error, and the message of one
\* shape is never the message of an answer of another shape; for the errored
\* answer a non-empty list in ErrorMessage is reduced to its first element.
C15_FailureShapesDiffer ==
    (pc = "done" /\ Called("post") /\ Shape(response) # "other") =>
        /\ detail \in {"connect", "rejected"}
        /\ text = <<>>
        /\ \A r \in Responses :
              Shape(r) \notin {"other", Shape(response)} =>
                  <<detail, errText>> # Message(r)
        /\ (response.kind = "errored" /\ response.ErrorMessage.type = "list"
              /\ response.ErrorMessage.list # <<>>) =>
                 errText = response.ErrorMessage.list[1]

C15_Witness ==
    /\ pc = "done"
    /\ response.kind = "errored"
    /\ response.ErrorMessage.list = <<"E101: timed out", "E102">>
    /\ detail = "rejected"
    /\ errText = "E101: timed out"

\* the quality levels of the descending re-encoding
QualityLevels == {60, 65, 70, 75, 80, 85}

\* C16: extract_text_cloud ends with the payload-too-large error for a
\* re-encoded image only when no quality level from 85 down to 60 gives an
\* encoding within the ceiling.
C16_TooLargeOnlyIfNoQualityFits ==
    (pc = "done" /\ detail = "too_large" /\ payload.jpeg) =>
        \A q \in QualityLevels : JpegSize(payload.content, q) > MaxPayloadBytes

\* C17: a local request never reaches the cloud adapter and hands both
\* engines the same image, the output of the preprocessing pipeline; a
\* cloud request hands the adapter the uploaded bytes, runs no decoding
\* check and no preprocessing, and calls no local engine.
C17_PathsExclusive ==
    /\ path = "local" =>
          /\ handed.cloud = "none"
          /\ ~Called("resize") /\ ~Called("post")
          /\ payload = NoPayload /\ sent = <<>>
          /\ Called("easy") => Called("preprocess") /\ handed.easy = "rgb"
          /\ Called("tess") => handed.tess = "rgb" /\ handed.tess = handed.easy
    /\ path = "cloud" =>
          /\ handed.easy = "none" /\ handed.tess = "none"
          /\ ~Called("open") /\ ~Called("preprocess")
          /\ ~Called("easy") /\ ~Called("tess") /\ ~Called("merge")
          /\ Called("read") => handed.cloud = "upload"

C17_Witness ==
    /\ path = "local"
    /\ pc = "done"
    /\ status = 200
    /\ handed = [easy |-> "rgb", tess |-> "rgb", cloud |-> "none"]

\* C13: the reader is built once, while the process imports its modules;
\* whenever a request is being handled the process has finished importing
\* and the reader has been built exactly once, so that no handler builds it
\* and every recognition call meets the same instance.
C13_ReaderBuiltOnceBeforeRequests ==
    /\ readerLoads <= 1
    /\ path # "none" => proc = "serving" /\ readerLoads = 1

C13_Witness ==
    /\ path = "local"
    /\ pc = "done"
    /\ calls = <<"read", "open", "preprocess", "easy", "tess", "merge">>
    /\ readerLoads = 1

\* C12: while a request is in preprocessing, in a local recognition call or
\* waiting for the answer of the remote engine, a ping that has arrived can
\* be served: the dispatcher is not held by the request.
C12_SecondRequestProgresses ==
    (/\ ping = "waiting"
     /\ path \in {"local", "cloud"}
     /\ pc \in {"preprocess", "easy", "tess", "post"})
        => ENABLED PingServe

\* the stages of preprocess_image_bytes in the order of its body
StageOrder ==
    <<"decode", "denoise", "binarize", "deskew", "sharpen", "upscale", "threshold">>

\* C18: preprocess_image_bytes runs decode, denoise and contrast, binarize
\* and line-clean, deskew, sharpen, the 2x upscale and the Otsu threshold
\* once each in that order, and every sample of the grid it returns is 0 or
\* 255, the grid having twice the height and width of the sharpened one.
C18_StagesInOrderBinaryOutput ==
    /\ stages = SubSeq(StageOrder, 1, Len(stages))
    /\ ppc = "done" =>
          /\ stages = StageOrder
          /\ Samples(grid) \subseteq {0, 255}
          /\ grid.h = gridIn.h /\ grid.w = gridIn.w
          /\ Len(grid.px) = grid.h * grid.w
    /\ ppc = "upscaled" => grid.h = 2 * gridIn.h /\ grid.w = 2 * gridIn.w

C18_Witness ==
    /\ ppc = "done"
    /\ stages = StageOrder
    /\ 128 \in Samples(gridIn)
    /\ Samples(grid) = {0, 255}

\* C19: deskew_image called with a grid whose samples are all 0 rotates by
\* the angle 0 and returns a grid of the same dimensions and samples.
C19_BlankGridUnchanged ==
    (ppc = "deskewed" /\ Samples(gridIn) = {0}) =>
        /\ angle = 0
        /\ grid = gridIn

C19_Witness ==
    /\ ppc = "deskewed"
    /\ gridIn = [h |-> 1, w |-> 2, px |-> <<0, 0>>]
    /\ grid = gridIn
    /\ angle = 0

\* the characters Python counts as whitespace, among those of the texts
Whitespace == {" ", "\t", "\n", "\r", "\f"}

\* C20: the text the local path returns on success neither starts nor ends
\* with whitespace and holds no line break but "\n": no carriage return and
\* no form feed of an engine's output survives.
C20_NoOuterWhitespaceOnlyNewlines ==
    tpc = "final" =>
        /\ out2 # <<>> => out2[1] \notin Whitespace /\ out2[Len(out2)] \notin Whitespace
        /\ \A i \in 1..Len(out2) : out2[i] \notin {"\r", "\f"}

C20_Witness ==
    /\ tpc = "final"
    /\ inp = <<"H", "o", "l", "a", "\r", "\n", "F", "i", "n", ".", "\r", "\n", "\f">>
    /\ out2 = <<"H", "o", "l", "a", "\n", "F", "i", "n", ".">>

\* C22: whenever the local path answers with a success, the text of the
\* answer is not empty: engine text that the two cleaning passes remove
\* entirely ends with the no-text-detected error.
C22_SuccessTextNonEmpty ==
    (path = "local" /\ pc = "done" /\ status = 200) => text # <<>>

\* C23: the angle deskew_image rotates by lies in (-45, 45], whichever raw
\* angle the minimum-area rectangle reports.
C23_AngleWithinQuarterTurn ==
    ppc = "deskewed" => angle > -45 /\ angle <= 45

\* C29: every payload extract_text_cloud posts is the JPEG re-encoding made
\* by _resize_image_if_needed, never the uploaded bytes as they came.
C29_PayloadAlwaysReencoded ==
    \A i \in 1..Len(sent) : sent[i].jpeg

\* the ligatures and dashes normalize_text replaces
Typographic == {"<fi>", "<fl>", "<emdash>", "<endash>"}

\* C21: the result of normalize_text, and the result of declutter applied to
\* it, hold neither ligature and neither the em dash nor the en dash.
C21_NoLigatureNoLongDash ==
    /\ tpc \in {"normalized", "decluttered"} =>
          \A i \in 1..Len(out1) : out1[i] \notin Typographic
    /\ tpc = "decluttered" =>
          \A i \in 1..Len(out2) : out2[i] \notin Typographic

C21_Witness ==
    /\ tpc = "decluttered"
    /\ inp = <<"a", "<emdash>", "<fi>", "<endash>", "<fl>">>
    /\ out2 = <<"a", "-", "f", "i", "-", "f", "l">>

\* C24: no two adjacent lines of the output of _post_clean_text are equal
\* when compared without regard to case.
C24_NoAdjacentDuplicateLines ==
    tpc = "post" =>
        \A i \in 1..(Len(splitlines(out1)) - 1) :
            lower(splitlines(out1)[i]) # lower(splitlines(out1)[i + 1])

\* C25: no line of the output of _post_clean_text holds more digits than
\* twice its letters.
C25_NoNumericNoiseLine ==
    tpc = "post" =>
        \A i \in 1..Len(splitlines(out1)) :
            Count(splitlines(out1)[i], Digits)
                <= 2 * Count(splitlines(out1)[i], ServiceLetters)

C25_Witness ==
    /\ tpc = "post"
    /\ inp = <<"a", "1", "1", "1", "\n", "a", "1", "1">>
    /\ out1 = <<"a", "1", "1">>

\* the lines that are left when only the lines with more digits than twice
\* their letters are removed
RECURSIVE DropNumericNoise(_)
DropNumericNoise(lines) ==
    IF lines = <<>> THEN <<>>
    ELSE (IF Count(Head(lines), Digits) > 2 * Count(Head(lines), ServiceLetters)
          THEN <<>> ELSE <<Head(lines)>>)
           \o DropNumericNoise(Tail(lines))

\* C26: _post_clean_text keeps every non-empty line that neither holds more
\* digits than twice its letters nor repeats, without regard to case, the
\* line kept before it; a word of two letters is kept.
C26_RemovesOnlyNoiseAndDuplicates ==
    tpc = "post" =>
        Len(splitlines(out1))
            = Len(clean_unique(DropNumericNoise(StrippedNonEmpty(splitlines(inp)))))

\* C27: when every line of the normalized combined text has a fraction of
\* good characters below 0.4, nothing of it is left in the text
\* clean_ocr_text returns.
C27_LowRatioLineDroppedWhole ==
    (/\ tpc = "cleaned"
     /\ \A i \in 1..Len(TextLines(normalize_text(Combine(<<>>, inp)))) :
           LowGoodRatio(TextLines(normalize_text(Combine(<<>>, inp)))[i]))
        => out1 = <<>>

\* C28: _resize_if_needed returns, for every grid of positive height and
\* width, a grid whose height and width are at least 1.
C28_ResizedSidesPositive ==
    ppc \in {"resized", "resize_raised"} =>
        /\ ppc = "resized"
        /\ grid.h >= 1
        /\ grid.w >= 1

\* C30: no two successful calls of save_text_to_disk return the same file
\* name, and the file of every call still holds the text that call wrote.
C30_SavedNamesUnique ==
    /\ \A i, j \in 1..Len(saved) : i # j => saved[i].name # saved[j].name
    /\ \A i \in 1..Len(saved) : files[saved[i].name] = saved[i].text

====
